---- MODULE Spec2Model ----
(***************************************************************************)
(* q2-gunc: the transformer from a GUNC results directory to a table.      *)
(*                                                                         *)
(* The model follows gunc_results_directory_format_to_metadata            *)
(* (q2_gunc/types/_transformer.py) statement by statement.  A directory    *)
(* of the format is the set of files in it that match the pattern          *)
(* GUNC.*.maxCSS_level.tsv; a file is its header and its data lines; a     *)
(* data frame is its column labels, its index and its rows of cells.       *)
(* The library calls are modelled by what they do to such a frame:         *)
(* pandas.read_csv, column assignment, pandas.concat(ignore_index=True),   *)
(* DataFrame.set_index (which removes the column it promotes) and the      *)
(* qiime2.Metadata constructor (which refuses an empty or a non-unique     *)
(* index).  glob.glob returns its matches in arbitrary order, so the file  *)
(* taken as maxcss_files[0] is any of the matching files.                  *)
(***************************************************************************)
EXTENDS Integers, Sequences, FiniteSets, TLC

\* Bounds of the model.
MaxSamples == 2   \* sample subdirectories of a partitioned directory
MaxFiles == 2     \* maxCSS files in the whole directory tree
MaxRows == 2      \* data rows of all maxCSS files together
MaxCalls == 2     \* calls of a transformer on the same directory

Genomes == {"g1", "g2"}
Levels == {"kingdom", "species"}
SampleNames == <<"SRR1", "SRR2", "SRR3", "SRR4">>

\* The 13 columns of a GUNC result table.
Header ==
    <<"genome", "n_genes_called", "n_genes_mapped", "n_contigs",
      "taxonomic_level", "proportion_genes_retained_in_major_clades",
      "genes_retained_index", "clade_separation_score",
      "contamination_portion", "n_effective_surplus_clades",
      "mean_hit_identity", "reference_representation_score", "pass.GUNC">>

----------------------------------------------------------------------------
\* Sequence helpers.

Range(s) == {s[k] : k \in DOMAIN s}

IndexOf(s, x) == CHOOSE k \in DOMAIN s : s[k] = x

RemoveAt(s, k) == [j \in 1..(Len(s) - 1) |-> IF j < k THEN s[j] ELSE s[j + 1]]

HasDuplicates(s) == \E j, k \in DOMAIN s : j # k /\ s[j] = s[k]

RECURSIVE Flatten(_)
Flatten(ss) == IF ss = <<>> THEN <<>> ELSE Head(ss) \o Flatten(Tail(ss))

----------------------------------------------------------------------------
\* The files on disk.

\* One data line of a maxCSS file: a cell per column of the header.
Line(g, l) ==
    [k \in 1..Len(Header) |->
        IF Header[k] = "genome" THEN g
        ELSE IF Header[k] = "taxonomic_level" THEN l
        ELSE "0"]

Lines == {Line(g, l) : g \in Genomes, l \in Levels}

\* The maxCSS files with at most r data lines.
TsvFiles(r) ==
    {[header |-> Header, lines |-> ls] :
        ls \in UNION {[1..n -> Lines] : n \in 0..r}}

\* The ways of placing at most f files, with at most r data lines together,
\* in n directories: pairs of the set of (directory, file) placed and the
\* number of data lines used.
RECURSIVE Placements(_, _, _)
Placements(n, f, r) ==
    IF f = 0 THEN {<<{}, 0>>}
    ELSE LET smaller == Placements(n, f - 1, r)
         IN  smaller \cup
             UNION {{<<t[1] \cup {<<k, file>>}, t[2] + Len(file.lines)>> :
                        k \in 1..n, file \in TsvFiles(r - t[2])} :
                    t \in smaller}

\* A directory format: flat, or one subdirectory per sample; each directory
\* is given by the set of its files that match GUNC.*.maxCSS_level.tsv.
FormatOf(partitioned, n, placed) ==
    [partitioned |-> partitioned,
     dirs |-> [k \in 1..n |-> {p[2] : p \in {q \in placed : q[1] = k}}]]

Formats ==
    {FormatOf(FALSE, 1, t[1]) : t \in Placements(1, MaxFiles, MaxRows)}
    \cup
    UNION {{FormatOf(TRUE, n, t[1]) : t \in Placements(n, MaxFiles, MaxRows)} :
           n \in 0..MaxSamples}

\* GUNCResultsDirectoryFormat.file_dict(): the (sample id, directory) items
\* in iteration order; the flat layout has the single key "".
file_dict(f) ==
    IF f.partitioned
    THEN [k \in 1..Len(f.dirs) |->
            [sample_id |-> SampleNames[k], directory |-> f.dirs[k]]]
    ELSE <<[sample_id |-> "", directory |-> f.dirs[1]]>>

\* glob.glob(os.path.join(directory, "GUNC.*.maxCSS_level.tsv"))
glob(directory) == directory

----------------------------------------------------------------------------
\* Data frames.

\* pd.read_csv(maxcss_file, sep='\t')
read_csv(file) ==
    [columns |-> file.header,
     index_name |-> "",
     index |-> [k \in 1..Len(file.lines) |-> k - 1],
     data |-> file.lines]

\* df['sample_id'] = the key of the first partition
assign_first_sample_id(df, sample_id) ==
    [df EXCEPT !.columns = Append(df.columns, "sample_id"),
               !.data = [k \in DOMAIN df.data |->
                            Append(df.data[k], SampleNames[1])]]

\* df['sample_id'] = sample_id
assign_sample_id(df, sample_id) ==
    [df EXCEPT !.columns = Append(df.columns, "sample_id"),
               !.data = [k \in DOMAIN df.data |->
                            Append(df.data[k], sample_id)]]

\* The column labels of the frames in order of first appearance.
RECURSIVE UnionColumns(_, _)
UnionColumns(dfs, acc) ==
    IF dfs = <<>> THEN acc
    ELSE UnionColumns(Tail(dfs),
            acc \o SelectSeq(Head(dfs).columns,
                             LAMBDA c : c \notin Range(acc)))

Reindexed(df, columns) ==
    [k \in DOMAIN df.data |->
        [c \in DOMAIN columns |->
            IF columns[c] \in Range(df.columns)
            THEN df.data[k][IndexOf(df.columns, columns[c])]
            ELSE "NaN"]]

\* combined_df = the frame of the last partition only
concat_last(dfs) ==
    LET df == dfs[Len(dfs)]
    IN  [columns |-> df.columns,
         index_name |-> "",
         index |-> [k \in 1..Len(df.data) |-> k - 1],
         data |-> df.data]

\* pd.concat(dataframes, ignore_index=True)
concat(dfs) ==
    LET columns == UnionColumns(dfs, <<>>)
        data == Flatten([k \in DOMAIN dfs |-> Reindexed(dfs[k], columns)])
    IN  [columns |-> columns,
         index_name |-> "",
         index |-> [k \in 1..Len(data) |-> k - 1],
         data |-> data]

\* combined_df.set_index('genome', inplace=True): the column becomes the
\* index and is removed from the columns.
set_index(df, column) ==
    LET c == IndexOf(df.columns, column)
    IN  [columns |-> RemoveAt(df.columns, c),
         index_name |-> column,
         index |-> [k \in DOMAIN df.data |-> df.data[k][c]],
         data |-> [k \in DOMAIN df.data |-> RemoveAt(df.data[k], c)]]

\* combined_df.index.name = 'id'
rename_index(df, name) == [df EXCEPT !.index_name = name]

NoTable == [columns |-> <<>>, index_name |-> "", index |-> <<>>, data |-> <<>>]

Raised(error) == [kind |-> "error", error |-> error, table |-> NoTable]

Returned(df) == [kind |-> "table", error |-> "", table |-> df]

\* qiime2.Metadata(combined_df): the constructor refuses a frame without
\* IDs and a frame whose IDs are not unique.
Metadata(df) ==
    IF df.index = <<>> THEN Raised("ValueError: no IDs")
    ELSE IF HasDuplicates(df.index) THEN Raised("ValueError: duplicate IDs")
    ELSE Returned(df)

----------------------------------------------------------------------------
\* The transformer as a state machine.

VARIABLES
    fmt,         \* the directory format the transformers are applied to
    pc,          \* "idle", or "loop" inside a call
    view,        \* the view type of the running call
    i,           \* position of the for loop in file_dict.items()
    dataframes,  \* the list of frames collected so far
    calls        \* the finished calls with their outcomes

vars == <<fmt, pc, view, i, dataframes, calls>>

Views == {"Metadata", "DataFrame"}

\* dataframes = []  (StaleDataframes: a list that outlives the call)
StaleDataframes == dataframes

EmptyDataframes == <<>>

\* if sample_id:
always_sample(sample_id) == TRUE

is_sample(sample_id) == sample_id # ""

\* if not dataframes:
never_no_results(dfs) == FALSE

no_results(dfs) == dfs = <<>>

NoResultsError == "ValueError: No GUNC maxCSS results found in the directory format"

Init ==
    /\ fmt \in Formats
    /\ pc = "idle"
    /\ view = "Metadata"
    /\ i = 1
    /\ dataframes = <<>>
    /\ calls = <<>>

\* fmt.view(view_type=v): file_dict = fmt.file_dict(); dataframes = []
Call(v) ==
    /\ pc = "idle"
    /\ Len(calls) < MaxCalls
    /\ pc' = "loop"
    /\ view' = v
    /\ i' = 1
    /\ dataframes' = EmptyDataframes
    /\ UNCHANGED <<fmt, calls>>

\* One iteration of the loop for a directory without a maxCSS file.
LoopSkip ==
    /\ pc = "loop"
    /\ i <= Len(file_dict(fmt))
    /\ glob(file_dict(fmt)[i].directory) = {}
    /\ i' = i + 1
    /\ UNCHANGED <<fmt, pc, view, dataframes, calls>>

\* One iteration of the loop for a directory with a maxCSS file.
LoopRead ==
    /\ pc = "loop"
    /\ i <= Len(file_dict(fmt))
    /\ LET item == file_dict(fmt)[i]
       IN  \E maxcss_file \in glob(item.directory) :
              LET df == read_csv(maxcss_file)
                  tagged == IF is_sample(item.sample_id)
                            THEN assign_sample_id(df, item.sample_id)
                            ELSE df
              IN  dataframes' = Append(dataframes, tagged)
    /\ i' = i + 1
    /\ UNCHANGED <<fmt, pc, view, calls>>

Finish(outcome) ==
    /\ calls' = Append(calls, [view |-> view, outcome |-> outcome])
    /\ pc' = "idle"
    /\ UNCHANGED <<fmt, view, i, dataframes>>

\* if not dataframes: raise ValueError(...)
RaiseNoResults ==
    /\ pc = "loop"
    /\ i > Len(file_dict(fmt))
    /\ no_results(dataframes)
    /\ Finish(Raised(NoResultsError))

\* pd.concat, set_index('genome'), index.name = 'id'
combined_df(dfs) == rename_index(set_index(concat(dfs), "genome"), "id")

\* The rest of gunc_results_directory_format_to_metadata; pd.concat raises
\* on an empty list of frames.
ReturnMetadata ==
    /\ pc = "loop"
    /\ view = "Metadata"
    /\ i > Len(file_dict(fmt))
    /\ ~no_results(dataframes)
    /\ Finish(IF dataframes = <<>>
              THEN Raised("ValueError: No objects to concatenate")
              ELSE Metadata(combined_df(dataframes)))

\* The raw-table view: the same table, its genome column kept and its index
\* allowed to repeat.
raw_table(dfs) ==
    LET df == concat(dfs)
    IN  [df EXCEPT !.index_name = "id",
                   !.index = [k \in DOMAIN df.data |->
                                df.data[k][IndexOf(df.columns, "genome")]]]

ReturnDataFrame ==
    /\ pc = "loop"
    /\ view = "DataFrame"
    /\ i > Len(file_dict(fmt))
    /\ ~no_results(dataframes)
    /\ Finish(IF dataframes = <<>>
              THEN Raised("ValueError: No objects to concatenate")
              ELSE Returned(raw_table(dataframes)))

Next ==
    \/ \E v \in Views : Call(v)
    \/ LoopSkip
    \/ LoopRead
    \/ RaiseNoResults
    \/ ReturnMetadata
    \/ ReturnDataFrame

Spec == Init /\ [][Next]_vars

----------------------------------------------------------------------------
\* What the output is expected to be, stated from the directory alone.

\* The ways of taking one maxCSS file from every directory that has one, in
\* file_dict() order.
RECURSIVE Selections(_)
Selections(items) ==
    IF items = <<>> THEN {<<>>}
    ELSE LET h == Head(items)
             rest == Selections(Tail(items))
         IN  IF h.directory = {} THEN rest
             ELSE {<<[sample_id |-> h.sample_id, file |-> f]>> \o r :
                      f \in h.directory, r \in rest}

\* The data lines of a selection, in order, each with the key of its partition.
ExpectedRows(sel) ==
    Flatten([k \in DOMAIN sel |->
        [j \in DOMAIN sel[k].file.lines |->
            [sample_id |-> sel[k].sample_id, line |-> sel[k].file.lines[j]]]])

Cell(e, name) ==
    IF name = "sample_id" THEN e.sample_id ELSE e.line[IndexOf(Header, name)]

\* The table holds exactly the expected rows, in order: the index holds the
\* genome and every column of the table holds the cell of the source line.
RowsAgree(table, exp) ==
    /\ Len(table.data) = Len(exp)
    /\ Len(table.index) = Len(exp)
    /\ \A k \in DOMAIN exp :
          /\ table.index[k] = Cell(exp[k], "genome")
          /\ \A c \in DOMAIN table.columns :
                table.data[k][c] = Cell(exp[k], table.columns[c])

RECURSIVE SumLines(_)
SumLines(sel) ==
    IF sel = <<>> THEN 0 ELSE Len(Head(sel).file.lines) + SumLines(Tail(sel))

Items == file_dict(fmt)

MetadataCalls == {c \in Range(calls) : c.view = "Metadata"}

DataFrameCalls == {c \in Range(calls) : c.view = "DataFrame"}

IsTable(c) == c.outcome.kind = "table"

HasColumn(c, name) == name \in Range(c.outcome.table.columns)

Partitioned == \A k \in DOMAIN Items : Items[k].sample_id # ""

SomeFile == \E k \in DOMAIN Items : Items[k].directory # {}

\* Every directory has at most one maxCSS file.
SingleMatch == \A k \in DOMAIN Items : Cardinality(Items[k].directory) <= 1

\* Every maxCSS file of the directory has at least one data line.
NoEmptyFile ==
    \A k \in DOMAIN Items : \A f \in Items[k].directory : f.lines # <<>>

\* A complete results directory: one maxCSS file with data in each partition.
CompleteDirectory ==
    /\ Items # <<>>
    /\ NoEmptyFile
    /\ \A k \in DOMAIN Items : Cardinality(Items[k].directory) = 1

----------------------------------------------------------------------------
C2_SampleIdColumn ==
    \A c \in MetadataCalls :
        IsTable(c) => (HasColumn(c, "sample_id") <=> Partitioned)

C2_Witness ==
    /\ ~Partitioned
    /\ \E c \in MetadataCalls : IsTable(c) /\ ~HasColumn(c, "sample_id")

\* C3: when no directory of file_dict() has a maxCSS file (an empty
\* file_dict included) the transformer raises its "no results" error and
\* returns no table.
C3_NoResultsRaises ==
    ~SomeFile =>
        \A c \in MetadataCalls : c.outcome = Raised(NoResultsError)

C3_Witness ==
    /\ ~SomeFile
    /\ Len(Items) = 2
    /\ \E c \in MetadataCalls : c.outcome.kind = "error"

\* C4: with one partition lacking a maxCSS file and another having one with
\* data, the transformer succeeds and returns exactly the rows of the
\* partitions that have a file.
C4_SkipSucceeds ==
    (/\ NoEmptyFile
     /\ SomeFile
     /\ \E k \in DOMAIN Items : Items[k].directory = {})
    => \A c \in MetadataCalls :
          /\ IsTable(c)
          /\ \E sel \in Selections(Items) :
                RowsAgree(c.outcome.table, ExpectedRows(sel))

\* C5: the returned table has all 13 columns of the TSV header, genome
\* included, sample_id too when partitioned, and its index is named id and
\* holds the genome values.
C5_AllColumns ==
    \A c \in MetadataCalls :
        IsTable(c) =>
            /\ \A h \in Range(Header) : HasColumn(c, h)
            /\ Partitioned => HasColumn(c, "sample_id")
            /\ c.outcome.table.index_name = "id"
            /\ \E sel \in Selections(Items) :
                  \A k \in DOMAIN c.outcome.table.index :
                      c.outcome.table.index[k]
                          = Cell(ExpectedRows(sel)[k], "genome")

\* C6: the transformer completes and keeps every row also when a genome id
\* appears in several rows.
C6_NonUniqueIndex ==
    (SomeFile /\ NoEmptyFile)
    => \A c \in MetadataCalls :
          /\ IsTable(c)
          /\ \E sel \in Selections(Items) :
                RowsAgree(c.outcome.table, ExpectedRows(sel))

\* C7: on a complete directory the raw-table view and the metadata view are
\* both tables with index name id, the same number of rows and the same
\* presence of sample_id.
C7_ViewsAgree ==
    CompleteDirectory =>
        \A m \in MetadataCalls : \A d \in DataFrameCalls :
            /\ IsTable(m) /\ IsTable(d)
            /\ m.outcome.table.index_name = "id"
            /\ d.outcome.table.index_name = "id"
            /\ Len(m.outcome.table.data) = Len(d.outcome.table.data)
            /\ HasColumn(m, "sample_id") <=> HasColumn(d, "sample_id")

C9_Concatenation ==
    (/\ NoEmptyFile
     /\ Len(Items) = 2
     /\ \A k \in DOMAIN Items : Items[k].directory # {})
    => \A c \in MetadataCalls :
          /\ IsTable(c)
          /\ \E sel \in Selections(Items) :
                RowsAgree(c.outcome.table, ExpectedRows(sel))

\* The sample_id values of a table, and the keys of the partitions a
\* selection takes a file from, and of those whose file has data.
SampleIdValues(table) ==
    {table.data[k][IndexOf(table.columns, "sample_id")] :
        k \in DOMAIN table.data}

Contributors(sel) == {sel[k].sample_id : k \in DOMAIN sel}

RowContributors(sel) ==
    {sel[k].sample_id : k \in {j \in DOMAIN sel : sel[j].file.lines # <<>>}}

\* C10 as stated: the rows carry the key of their partition, and the
\* sample_id values are the keys of the partitions that contributed a table.
C10_SampleIdValues ==
    \A c \in MetadataCalls :
        (IsTable(c) /\ Partitioned) =>
            \E sel \in Selections(Items) :
                /\ RowsAgree(c.outcome.table, ExpectedRows(sel))
                /\ SampleIdValues(c.outcome.table) = Contributors(sel)

\* C10 amended: the rows carry the key of their partition, and the
\* sample_id values are the keys of the partitions whose maxCSS file
\* contributed at least one row.
C10_SampleIdOfRows ==
    \A c \in MetadataCalls :
        (IsTable(c) /\ Partitioned) =>
            \E sel \in Selections(Items) :
                /\ RowsAgree(c.outcome.table, ExpectedRows(sel))
                /\ SampleIdValues(c.outcome.table) = RowContributors(sel)

C10_Witness ==
    /\ Partitioned
    /\ \E c \in MetadataCalls :
          /\ IsTable(c)
          /\ Cardinality(SampleIdValues(c.outcome.table)) = 2

====
